---- MODULE Spec2Model ----
(***************************************************************************)
(* Model of main() in src/src/train_argument_survey.py: resolution of the  *)
(* target vector, resume of a saved adapter, and the training/validation   *)
(* loop with its loss-based checkpoint selection.                          *)
(*                                                                         *)
(* Floating-point losses are modelled as records: a finite value (an       *)
(* integer number of 1/LossUnit parts, so that the per-epoch means are     *)
(* exact), positive infinity, or NaN.  The loss a forward pass returns is  *)
(* chosen nondeterministically among them.  Both data loaders are taken to *)
(* be non-empty (the epoch means of lines 142-143 divide by their length). *)
(***************************************************************************)
EXTENDS Integers, Sequences, FiniteSets

(* ------------------------------ bounds -------------------------------- *)
MaxEpochs == 2
MaxTrainBatches == 2
MaxValidBatches == 2
MaxRows == 2
MaxExtraCols == 1
MaxResumeEpoch == 2

(* Number of trailing columns of the distribution table that are consumed. *)
NumTarget == 10

(* ------------------------------ floats -------------------------------- *)
Fin(v) == [k |-> "fin", v |-> v]
Inf == [k |-> "inf", v |-> 0]
NaN == [k |-> "nan", v |-> 0]
(* A variable that has not been assigned yet. *)
Unset == [k |-> "unset", v |-> 0]
Zero == Fin(0)

IsNan(a) == a.k = "nan"
IsFinite(a) == a.k = "fin"

RECURSIVE Factorial(_)
Factorial(n) == IF n <= 1 THEN 1 ELSE n * Factorial(n - 1)

MaxOf(a, b) == IF a >= b THEN a ELSE b

(* One unit of loss, divisible by every possible loader length. *)
LossUnit == Factorial(MaxOf(MaxTrainBatches, MaxValidBatches))

(* The values outputs.loss may take: zero, a positive finite loss, +inf   *)
(* and NaN (the running totals then range over every multiple of the     *)
(* unit up to the loader length).                                        *)
LossValues == {Zero, Fin(LossUnit), Inf, NaN}

(* a + b on floats *)
FAdd(a, b) ==
  IF IsNan(a) \/ IsNan(b) THEN NaN
  ELSE IF a.k = "inf" \/ b.k = "inf" THEN Inf
  ELSE Fin(a.v + b.v)

(* a / n on floats, n a positive integer *)
FDiv(a, n) ==
  IF IsNan(a) THEN NaN
  ELSE IF a.k = "inf" THEN Inf
  ELSE Fin(a.v \div n)

(* a < b on floats: false whenever a NaN is involved *)
FLess(a, b) ==
  IF IsNan(a) \/ IsNan(b) THEN FALSE
  ELSE IF a.k = "inf" THEN FALSE
  ELSE IF b.k = "inf" THEN TRUE
  ELSE a.v < b.v

(* torch.nan_to_num on a loss that torch.isnan accepted: NaN becomes 0.   *)
(* (Its replacement of infinities is never used: the call is guarded by   *)
(* torch.isnan, see NanGuard.)                                            *)
NanToNumIdentity(x) == x
NanToNum(x) == IF IsNan(x) THEN Zero ELSE x

(* torch.isnan(loss): true of NaN only, not of an infinite loss. *)
NanGuard(x) == IF IsNan(x) THEN NanToNum(x) ELSE x

(* --------------------------- input domains ---------------------------- *)
Names == {"Nigeria", "Germany"}
Identifiers == Names \cup {"Atlantis"}

NumColsRange == NumTarget..(NumTarget + MaxExtraCols)

(* The numeric cell of row i, column c: all cells of a table differ. *)
Cell(i, c) == i * (NumTarget + MaxExtraCols + 1) + c

KeyLists == UNION {[1..n -> Names] : n \in 1..MaxRows}

MakeTable(keys, ncols) ==
  [i \in 1..Len(keys) |->
     [Country |-> keys[i], cols |-> [c \in 1..ncols |-> Cell(i, c)]]]

Tables == {MakeTable(keys, ncols) : keys \in KeyLists, ncols \in NumColsRange}

FixedTable == MakeTable(<<"Germany", "Nigeria">>, NumTarget + MaxExtraCols)

(* ------------------------ resolver (lines 55-61) ---------------------- *)
(* country_and_group_df['Country'].tolist() *)
CountryList(df) == [i \in 1..Len(df) |-> df[i].Country]

Present(names, x) == \E i \in 1..Len(names) : names[i] = x

(* names.index(x): the first position holding x (ValueError if absent) *)
IndexOf(names, x) ==
  CHOOSE i \in 1..Len(names) :
    names[i] = x /\ \A j \in 1..(i - 1) : names[j] # x

(* list(row): the key cell followed by the numeric cells *)
RowAsList(row) == <<row.Country>> \o row.cols

(* seq[-10:] *)
LeadingCols(s) == SubSeq(s, 2, NumTarget + 1)
TrailingCols(s) ==
  IF Len(s) <= NumTarget THEN s ELSE SubSeq(s, Len(s) - NumTarget + 1, Len(s))

(* -------------------- resume path (utils, line 76) -------------------- *)
SetMax(S) == CHOOSE m \in S : \A e \in S : e <= m

(* The highest epoch-numbered subdirectory; 0 stands for "none found". *)
_find_save_path(dirs) == IF dirs = {} THEN 0 ELSE SetMax(dirs)

(* ------------------------------- state -------------------------------- *)
VARIABLES
  pc,                  \* position of main
  error,               \* the exception that ended the run, or "none"
  distribution_name,   \* argument
  num_epochs,          \* argument
  country_and_group_df,\* contents of extreme_distribution_file
  ckpt_dirs,           \* epoch subdirectories under the resume root
  n_train,             \* len(train_dataloader)
  n_valid,             \* len(valid_dataloader)
  target_score,        \* resolved target vector (<<>> before resolution)
  epoch_num,           \* result of _find_save_path
  model_mode,          \* "none" (not loaded), "train" or "eval"
  num_training_steps,  \* what the linear schedule was configured with
  best_loss,
  epoch,               \* loop variable of line 100 (0-based)
  step,                \* batches finished in the current phase
  loss,                \* the local variable loss
  total_loss,
  eval_loss,
  train_epoch_loss,
  eval_epoch_loss,
  checkpoints,         \* epochs (1-based) of the save_pretrained calls, in order
  returned,            \* return value of main
  grads,               \* TRUE while accumulated gradients are present
  fwd_train,           \* number of training forward passes
  fwd_valid,           \* number of validation forward passes
  backwards,           \* number of loss.backward() calls
  opt_steps,           \* number of optimizer.step() calls
  sched_steps,         \* number of lr_scheduler.step() calls
  raw_loss,            \* outputs.loss of the last forward pass
  contrib,             \* the value last added to a running total
  batch_ops,           \* the operations performed on the current training batch
  epoch_losses         \* eval_epoch_loss of every completed epoch, in order

inputs == <<distribution_name, num_epochs, country_and_group_df, ckpt_dirs,
            n_train, n_valid>>
config == <<target_score, epoch_num, num_training_steps>>
losses == <<loss, total_loss, eval_loss, train_epoch_loss, eval_epoch_loss,
            raw_loss, contrib>>
counters == <<fwd_train, fwd_valid, backwards, opt_steps, sched_steps>>
selection == <<best_loss, checkpoints, epoch_losses, returned>>

vars == <<pc, error, inputs, config, model_mode, epoch, step, losses, grads,
          counters, batch_ops, selection>>

(* ------------------------------- Init --------------------------------- *)
InitRest ==
  /\ pc = "resolve"
  /\ error = "none"
  /\ target_score = <<>>
  /\ epoch_num = 0
  /\ model_mode = "none"
  /\ num_training_steps = 0
  /\ best_loss = Unset
  /\ epoch = 0
  /\ step = 0
  /\ loss = Zero
  /\ total_loss = Zero
  /\ eval_loss = Zero
  /\ train_epoch_loss = Zero
  /\ eval_epoch_loss = Zero
  /\ checkpoints = <<>>
  /\ returned = Unset
  /\ grads = FALSE
  /\ fwd_train = 0
  /\ fwd_valid = 0
  /\ backwards = 0
  /\ opt_steps = 0
  /\ sched_steps = 0
  /\ raw_loss = Zero
  /\ contrib = Zero
  /\ batch_ops = <<>>
  /\ epoch_losses = <<>>

(* Every table, identifier and resume directory, with a one-batch run. *)
InitTableSweep ==
  /\ country_and_group_df \in Tables
  /\ distribution_name \in Identifiers
  /\ ckpt_dirs \in SUBSET (1..MaxResumeEpoch)
  /\ num_epochs = 1
  /\ n_train = 1
  /\ n_valid = 1

(* One table, every epoch count and loader length. *)
InitTrainingSweep ==
  /\ country_and_group_df = FixedTable
  /\ distribution_name = "Nigeria"
  /\ ckpt_dirs = 1..MaxResumeEpoch
  /\ num_epochs \in 0..MaxEpochs
  /\ n_train \in 1..MaxTrainBatches
  /\ n_valid \in 1..MaxValidBatches

Init == (InitTableSweep \/ InitTrainingSweep) /\ InitRest

(* ------------------- configuration (lines 55-99) ---------------------- *)
Fail(e) ==
  /\ pc' = "error"
  /\ error' = e

(* Lines 55-61: names.index raises ValueError for an absent identifier;   *)
(* otherwise the target is the last 10 cells of the row at that index.    *)
ResolveTargetDefaulting ==
  /\ pc = "resolve"
  /\ LET names == CountryList(country_and_group_df) IN
       target_score' =
         IF Present(names, distribution_name)
         THEN TrailingCols(RowAsList(
                country_and_group_df[IndexOf(names, distribution_name)]))
         ELSE [c \in 1..NumTarget |-> 0]
  /\ pc' = "find_save_path"
  /\ UNCHANGED <<error, inputs, epoch_num, num_training_steps, model_mode,
                 epoch, step, losses, grads, counters, batch_ops, selection>>

ResolveTarget ==
  /\ pc = "resolve"
  /\ LET names == CountryList(country_and_group_df) IN
       IF Present(names, distribution_name)
       THEN LET name_idx == IndexOf(names, distribution_name)
                row == country_and_group_df[name_idx]
            IN  /\ target_score' = TrailingCols(RowAsList(row))
                /\ pc' = "find_save_path"
                /\ error' = error
       ELSE /\ Fail("ValueError")
            /\ target_score' = target_score
  /\ UNCHANGED <<inputs, epoch_num, num_training_steps, model_mode,
                 epoch, step, losses, grads, counters, batch_ops, selection>>

(* Lines 76-77: the resume directory; fails when there is none. *)
FindSavePath ==
  /\ pc = "find_save_path"
  /\ IF _find_save_path(ckpt_dirs) = 0
     THEN /\ Fail("NoCheckpoint")
          /\ epoch_num' = epoch_num
     ELSE /\ epoch_num' = _find_save_path(ckpt_dirs)
          /\ pc' = "load_model"
          /\ error' = error
  /\ UNCHANGED <<inputs, target_score, num_training_steps, model_mode,
                 epoch, step, losses, grads, counters, batch_ops, selection>>

(* Lines 78-86: adapter configuration, base model, adapter weights.  Each *)
(* load either succeeds or raises; the mode the loaded model is in is     *)
(* whatever the libraries leave it in.                                    *)
LoadFailures == {"PeftConfigError", "BaseModelError", "AdapterError"}

LoadResumedModel ==
  /\ pc = "load_model"
  /\ \/ \E e \in LoadFailures :
          /\ Fail(e)
          /\ model_mode' = model_mode
     \/ /\ model_mode' \in {"train", "eval"}
        /\ pc' = "setup"
        /\ error' = error
  /\ UNCHANGED <<inputs, config, epoch, step, losses, grads, counters,
                 batch_ops, selection>>

(* Lines 88-99: optimizer, linear schedule, best_loss = inf. *)
SetupOptimizerZeroBest ==
  /\ pc = "setup"
  /\ num_training_steps' = n_train * num_epochs
  /\ best_loss' = Zero
  /\ epoch' = 0
  /\ pc' = "epoch_head"
  /\ UNCHANGED <<error, inputs, target_score, epoch_num, model_mode, step,
                 losses, grads, counters, batch_ops, checkpoints,
                 epoch_losses, returned>>

SetupOptimizerStepsOfOneEpoch ==
  /\ pc = "setup"
  /\ num_training_steps' = n_train
  /\ best_loss' = Inf
  /\ epoch' = 0
  /\ pc' = "epoch_head"
  /\ UNCHANGED <<error, inputs, target_score, epoch_num, model_mode, step,
                 losses, grads, counters, batch_ops, checkpoints,
                 epoch_losses, returned>>

SetupOptimizer ==
  /\ pc = "setup"
  /\ num_training_steps' = n_train * num_epochs
  /\ best_loss' = Inf
  /\ epoch' = 0
  /\ pc' = "epoch_head"
  /\ UNCHANGED <<error, inputs, target_score, epoch_num, model_mode, step,
                 losses, grads, counters, batch_ops, checkpoints,
                 epoch_losses, returned>>

(* ---------------------- the epoch loop (100-153) ---------------------- *)
fixed == <<error, inputs, config>>

(* Line 100-103: the next epoch starts with model.train() and a zero      *)
(* total; the loop ends when range(num_epochs) is exhausted.              *)
EpochHeadEarlyStop ==
  /\ pc = "epoch_head"
  /\ IF /\ epoch < num_epochs
        /\ \/ epoch = 0
           \/ (checkpoints # <<>> /\ checkpoints[Len(checkpoints)] = epoch)
     THEN /\ model_mode' = "train"
          /\ total_loss' = Zero
          /\ step' = 0
          /\ pc' = "train"
     ELSE /\ pc' = "return"
          /\ UNCHANGED <<model_mode, total_loss, step>>
  /\ UNCHANGED <<fixed, epoch, loss, eval_loss, train_epoch_loss,
                 eval_epoch_loss, raw_loss, contrib, grads, counters,
                 batch_ops, selection>>

EpochHead ==
  /\ pc = "epoch_head"
  /\ IF epoch < num_epochs
     THEN /\ model_mode' = "train"
          /\ total_loss' = Zero
          /\ step' = 0
          /\ pc' = "train"
     ELSE /\ pc' = "return"
          /\ UNCHANGED <<model_mode, total_loss, step>>
  /\ UNCHANGED <<fixed, epoch, loss, eval_loss, train_epoch_loss,
                 eval_epoch_loss, raw_loss, contrib, grads, counters,
                 batch_ops, selection>>

(* Lines 104-107: the next training batch and its forward pass. *)
TrainForward ==
  /\ pc = "train"
  /\ step < n_train
  /\ \E l \in LossValues :
       /\ loss' = l
       /\ raw_loss' = l
  /\ fwd_train' = fwd_train + 1
  /\ batch_ops' = <<"forward">>
  /\ pc' = "nan_guard"
  /\ UNCHANGED <<fixed, model_mode, epoch, step, total_loss, eval_loss,
                 train_epoch_loss, eval_epoch_loss, contrib, grads,
                 fwd_valid, backwards, opt_steps, sched_steps, selection>>

(* Lines 109-113 *)
TrainNanGuard ==
  /\ pc = "nan_guard"
  /\ loss' = NanGuard(loss)
  /\ batch_ops' = Append(batch_ops, "nan_guard")
  /\ pc' = "backward"
  /\ UNCHANGED <<fixed, model_mode, epoch, step, total_loss, eval_loss,
                 train_epoch_loss, eval_epoch_loss, raw_loss, contrib, grads,
                 counters, selection>>

(* Line 115 *)
TrainBackward ==
  /\ pc = "backward"
  /\ backwards' = backwards + 1
  /\ grads' = TRUE
  /\ batch_ops' = Append(batch_ops, "backward")
  /\ pc' = "accumulate"
  /\ UNCHANGED <<fixed, model_mode, epoch, step, losses, fwd_train,
                 fwd_valid, opt_steps, sched_steps, selection>>

(* Line 116 *)
TrainAccumulate ==
  /\ pc = "accumulate"
  /\ total_loss' = FAdd(total_loss, loss)
  /\ contrib' = loss
  /\ pc' = "opt_step"
  /\ UNCHANGED <<fixed, model_mode, epoch, step, loss, eval_loss,
                 train_epoch_loss, eval_epoch_loss, raw_loss, grads,
                 counters, batch_ops, selection>>

(* Line 118 *)
OptimizerStep ==
  /\ pc = "opt_step"
  /\ opt_steps' = opt_steps + 1
  /\ batch_ops' = Append(batch_ops, "optimizer_step")
  /\ pc' = "lr_step"
  /\ UNCHANGED <<fixed, model_mode, epoch, step, losses, grads, fwd_train,
                 fwd_valid, backwards, sched_steps, selection>>

(* Line 119 *)
SchedulerStepSkipResetOnNan ==
  /\ pc = "lr_step"
  /\ sched_steps' = sched_steps + 1
  /\ batch_ops' = Append(batch_ops, "lr_step")
  /\ IF IsNan(raw_loss)
     THEN /\ step' = step + 1
          /\ pc' = "train"
     ELSE /\ step' = step
          /\ pc' = "zero_grad"
  /\ UNCHANGED <<fixed, model_mode, epoch, losses, grads, fwd_train,
                 fwd_valid, backwards, opt_steps, selection>>

SchedulerStep ==
  /\ pc = "lr_step"
  /\ sched_steps' = sched_steps + 1
  /\ batch_ops' = Append(batch_ops, "lr_step")
  /\ pc' = "zero_grad"
  /\ UNCHANGED <<fixed, model_mode, epoch, step, losses, grads, fwd_train,
                 fwd_valid, backwards, opt_steps, selection>>

(* Line 120, and the end of the batch's loop body. *)
ZeroGrad ==
  /\ pc = "zero_grad"
  /\ grads' = FALSE
  /\ batch_ops' = Append(batch_ops, "zero_grad")
  /\ step' = step + 1
  /\ pc' = "train"
  /\ UNCHANGED <<fixed, model_mode, epoch, losses, counters, selection>>

(* Lines 122-126: the training batches are exhausted; empty_cache,        *)
(* model.eval() and a zero validation total.                              *)
EndTrainingPhaseNoEval ==
  /\ pc = "train"
  /\ step = n_train
  /\ eval_loss' = Zero
  /\ step' = 0
  /\ pc' = "valid"
  /\ UNCHANGED <<fixed, model_mode, epoch, loss, total_loss,
                 train_epoch_loss, eval_epoch_loss, raw_loss, contrib, grads,
                 counters, batch_ops, selection>>

EndTrainingPhase ==
  /\ pc = "train"
  /\ step = n_train
  /\ model_mode' = "eval"
  /\ eval_loss' = Zero
  /\ step' = 0
  /\ pc' = "valid"
  /\ UNCHANGED <<fixed, epoch, loss, total_loss, train_epoch_loss,
                 eval_epoch_loss, raw_loss, contrib, grads, counters,
                 batch_ops, selection>>

(* Lines 127-131: the next validation batch, forward only (no_grad). *)
ValidForward ==
  /\ pc = "valid"
  /\ step < n_valid
  /\ \E l \in LossValues :
       /\ loss' = l
       /\ raw_loss' = l
  /\ fwd_valid' = fwd_valid + 1
  /\ pc' = "valid_guard"
  /\ UNCHANGED <<fixed, model_mode, epoch, step, total_loss, eval_loss,
                 train_epoch_loss, eval_epoch_loss, contrib, grads,
                 fwd_train, backwards, opt_steps, sched_steps, batch_ops,
                 selection>>

(* Lines 133-137 *)
ValidNanGuard ==
  /\ pc = "valid_guard"
  /\ loss' = NanGuard(loss)
  /\ pc' = "valid_accumulate"
  /\ UNCHANGED <<fixed, model_mode, epoch, step, total_loss, eval_loss,
                 train_epoch_loss, eval_epoch_loss, raw_loss, contrib, grads,
                 counters, batch_ops, selection>>

(* Line 139, and the end of the batch's loop body. *)
ValidAccumulate ==
  /\ pc = "valid_accumulate"
  /\ eval_loss' = FAdd(eval_loss, loss)
  /\ contrib' = loss
  /\ step' = step + 1
  /\ pc' = "valid"
  /\ UNCHANGED <<fixed, model_mode, epoch, loss, total_loss,
                 train_epoch_loss, eval_epoch_loss, raw_loss, grads,
                 counters, batch_ops, selection>>

(* Lines 142-145: the validation batches are exhausted; the epoch means. *)
EpochSummary ==
  /\ pc = "valid"
  /\ step = n_valid
  /\ train_epoch_loss' = FDiv(total_loss, n_train)
  /\ eval_epoch_loss' = FDiv(eval_loss, n_valid)
  /\ epoch_losses' = Append(epoch_losses, FDiv(eval_loss, n_valid))
  /\ pc' = "decide"
  /\ UNCHANGED <<fixed, model_mode, epoch, step, loss, total_loss, eval_loss,
                 raw_loss, contrib, grads, counters, batch_ops, best_loss,
                 checkpoints, returned>>

(* Line 147: eval_epoch_loss < best_loss *)
ImprovesOrTies(e, b) == ~FLess(b, e)
Improves(e, b) == FLess(e, b)

(* Lines 147-151, and the end of the epoch's loop body. *)
CheckpointDecisionNoUpdate ==
  /\ pc = "decide"
  /\ IF Improves(eval_epoch_loss, best_loss)
     THEN checkpoints' = Append(checkpoints, epoch + 1)
     ELSE checkpoints' = checkpoints
  /\ best_loss' = best_loss
  /\ epoch' = epoch + 1
  /\ pc' = "epoch_head"
  /\ UNCHANGED <<fixed, model_mode, step, losses, grads, counters, batch_ops,
                 epoch_losses, returned>>

CheckpointDecision ==
  /\ pc = "decide"
  /\ IF Improves(eval_epoch_loss, best_loss)
     THEN /\ checkpoints' = Append(checkpoints, epoch + 1)
          /\ best_loss' = eval_epoch_loss
     ELSE UNCHANGED <<checkpoints, best_loss>>
  /\ epoch' = epoch + 1
  /\ pc' = "epoch_head"
  /\ UNCHANGED <<fixed, model_mode, step, losses, grads, counters, batch_ops,
                 epoch_losses, returned>>

(* Line 153 *)
Return ==
  /\ pc = "return"
  /\ returned' = best_loss
  /\ pc' = "done"
  /\ UNCHANGED <<fixed, model_mode, epoch, step, losses, grads, counters,
                 batch_ops, best_loss, checkpoints, epoch_losses>>

Next ==
  \/ ResolveTarget
  \/ FindSavePath
  \/ LoadResumedModel
  \/ SetupOptimizer
  \/ EpochHead
  \/ TrainForward
  \/ TrainNanGuard
  \/ TrainBackward
  \/ TrainAccumulate
  \/ OptimizerStep
  \/ SchedulerStep
  \/ ZeroGrad
  \/ EndTrainingPhase
  \/ ValidForward
  \/ ValidNanGuard
  \/ ValidAccumulate
  \/ EpochSummary
  \/ CheckpointDecision
  \/ Return

Spec == Init /\ [][Next]_vars

(* main runs to completion: no step is postponed forever. *)
FairSpec == Spec /\ WF_vars(Next)

(* ============================ properties =============================== *)
TrainBatchPcs == {"nan_guard", "backward", "accumulate", "opt_step",
                  "lr_step", "zero_grad"}
TrainPhasePcs == {"train"} \cup TrainBatchPcs
ValidPhasePcs == {"valid", "valid_guard", "valid_accumulate"}
LoopPcs == {"epoch_head", "decide", "return", "done"} \cup TrainPhasePcs
             \cup ValidPhasePcs

(* The smallest of a sequence of losses; +inf for the empty sequence. *)
MinLoss(seq) ==
  CHOOSE m \in {seq[i] : i \in 1..Len(seq)} \cup {Inf} :
    \A i \in 1..Len(seq) : ~FLess(seq[i], m)

StrictlyDecreasing(seq) ==
  \A i \in 1..(Len(seq) - 1) : FLess(seq[i + 1], seq[i])

NeverImprovesAfterFirst(seq) ==
  \A i \in 2..Len(seq) : ~FLess(seq[i], seq[1])

OneToN(n) == [i \in 1..n |-> i]

(* C1: at the end of every epoch the adapter is saved if and only if the  *)
(* epoch's mean validation loss is strictly less than the best loss so    *)
(* far; a save makes that mean the best loss; otherwise (ties included)   *)
(* nothing is written and the best loss stays; no other step of the run   *)
(* writes a checkpoint or changes the best loss.                          *)
C1_SaveIffStrictlyBetter ==
  [][(/\ pc = "decide" =>
          /\ eval_epoch_loss = FDiv(eval_loss, n_valid)
          /\ IF FLess(eval_epoch_loss, best_loss)
             THEN /\ checkpoints' = Append(checkpoints, epoch + 1)
                  /\ best_loss' = eval_epoch_loss
             ELSE /\ checkpoints' = checkpoints
                  /\ best_loss' = best_loss
      /\ pc # "decide" => checkpoints' = checkpoints
      /\ pc \in LoopPcs \ {"decide"} => best_loss' = best_loss)]_vars

(* A second epoch that ties with the first was not saved. *)
C1_Witness ==
  /\ pc = "epoch_head"
  /\ epoch = 2
  /\ IsFinite(epoch_losses[1])
  /\ epoch_losses[2] = epoch_losses[1]
  /\ checkpoints = <<1>>
  /\ best_loss = epoch_losses[1]

C3_BestIsMinimum ==
  /\ pc \in LoopPcs \ {"decide"} =>
       /\ Len(epoch_losses) = epoch
       /\ best_loss = MinLoss(epoch_losses)
  /\ pc = "decide" =>
       best_loss = MinLoss(SubSeq(epoch_losses, 1, epoch))
  /\ pc = "done" =>
       /\ Len(epoch_losses) = num_epochs
       /\ returned = MinLoss(epoch_losses)

(* The returned minimum is the first epoch's mean, not the last one's. *)
C3_Witness ==
  /\ pc = "done"
  /\ num_epochs = 2
  /\ FLess(epoch_losses[1], epoch_losses[2])
  /\ returned = epoch_losses[1]

(* The states right after a batch's loss was added to a running total. *)
JustAccumulated == pc = "opt_step" \/ (pc = "valid" /\ step > 0)

C5_ConfigErrorsBeforeTraining ==
  /\ (error # "none" \/ pc = "error") =>
       /\ pc = "error"
       /\ error # "none"
       /\ fwd_train = 0 /\ fwd_valid = 0 /\ backwards = 0
       /\ opt_steps = 0 /\ sched_steps = 0
       /\ checkpoints = <<>>
  /\ (pc # "resolve"
        /\ ~\E i \in 1..Len(country_and_group_df) :
              country_and_group_df[i].Country = distribution_name) =>
       /\ error = "ValueError"
       /\ target_score = <<>>
  /\ (pc \notin {"resolve", "find_save_path"} /\ ckpt_dirs = {}) =>
       pc = "error"
  /\ pc \in LoopPcs \cup {"setup"} =>
       /\ model_mode # "none"
       /\ epoch_num \in ckpt_dirs
       /\ Len(target_score) = NumTarget

(* The lookup of an absent identifier has failed. *)
C5_Witness ==
  /\ pc = "error"
  /\ error = "ValueError"
  /\ distribution_name = "Atlantis"
  /\ target_score = <<>>

(* C6: once the lookup is past, every identifier present in the key       *)
(* column has a target vector of exactly 10 elements, equal in order to   *)
(* the last 10 cells of the (first) row whose key is the identifier.      *)
C6_TargetIsTrailingTen ==
  LET df == country_and_group_df
      hits == {i \in 1..Len(df) : df[i].Country = distribution_name}
  IN  (pc # "resolve" /\ hits # {}) =>
        /\ error # "ValueError"
        /\ Len(target_score) = 10
        /\ \E i \in hits :
             /\ \A j \in hits : i <= j
             /\ \A c \in 1..10 :
                  target_score[c] = df[i].cols[Len(df[i].cols) - 10 + c]

(* The identifier is the key of the second row of a table with more than  *)
(* ten numeric columns.                                                   *)
C6_Witness ==
  /\ pc = "find_save_path"
  /\ Len(country_and_group_df) = 2
  /\ country_and_group_df[1].Country # distribution_name
  /\ country_and_group_df[2].Country = distribution_name
  /\ Len(country_and_group_df[2].cols) > NumTarget
  /\ target_score[1] = country_and_group_df[2].cols[2]

(* C7: once the loop is entered the run reaches the return; every epoch   *)
(* is a full training phase followed by a full validation phase, and at   *)
(* the return exactly num_epochs epochs have run, whatever the            *)
(* checkpoint decisions were.                                             *)
C7_NoEarlyStopping ==
  /\ [](/\ pc \in TrainPhasePcs =>
             /\ epoch < num_epochs
             /\ fwd_valid = epoch * n_valid
             /\ fwd_train = epoch * n_train + step
                              + (IF pc = "train" THEN 0 ELSE 1)
        /\ pc \in ValidPhasePcs \cup {"decide"} =>
             /\ epoch < num_epochs
             /\ fwd_train = (epoch + 1) * n_train
             /\ fwd_valid = epoch * n_valid
                              + (IF pc = "decide" THEN n_valid ELSE step)
                              + (IF pc \in {"valid", "decide"} THEN 0 ELSE 1)
        /\ pc \in {"return", "done"} =>
             /\ epoch = num_epochs
             /\ Len(epoch_losses) = num_epochs
             /\ fwd_train = num_epochs * n_train
             /\ fwd_valid = num_epochs * n_valid)
  /\ (pc = "epoch_head") ~> (pc = "done")

(* A run whose second epoch did not improve still ran both epochs. *)
C7_Witness ==
  /\ pc = "done"
  /\ num_epochs = 2
  /\ Len(checkpoints) < 2
  /\ fwd_train = 2 * n_train
  /\ fwd_valid = 2 * n_valid

BatchOrder == <<"forward", "nan_guard", "backward", "optimizer_step",
                "lr_step", "zero_grad">>

(* C8: the operations on a training batch are, each once and in this      *)
(* order, forward, nan-guard, backward, optimizer step, schedule step,    *)
(* gradient reset; a finished batch has had all six, a NaN batch too, and *)
(* no gradients are left when the next batch is fetched.                  *)
C8_BatchOrder ==
  /\ Len(batch_ops) <= Len(BatchOrder)
  /\ batch_ops = SubSeq(BatchOrder, 1, Len(batch_ops))
  /\ (pc = "train" /\ step > 0) => batch_ops = BatchOrder
  /\ pc \in TrainBatchPcs => (batch_ops # <<>> /\ batch_ops # BatchOrder)
  /\ pc \in {"train", "nan_guard", "backward"} => ~grads
  /\ pc \in TrainPhasePcs => backwards >= opt_steps /\ opt_steps >= sched_steps

(* A batch whose loss was NaN has gone through all six steps. *)
C8_Witness ==
  /\ pc = "train"
  /\ step = 1
  /\ IsNan(raw_loss)
  /\ batch_ops = BatchOrder
  /\ ~grads

(* C9: during validation and up to the checkpoint decision the numbers of *)
(* backward passes, optimizer steps and schedule steps are those of the   *)
(* end of the training phase, no gradients are held and the model is in   *)
(* inference mode; during every training phase the model is in trainable  *)
(* mode.                                                                  *)
C9_ValidationReadOnly ==
  /\ pc \in ValidPhasePcs \cup {"decide"} =>
       /\ model_mode = "eval"
       /\ backwards = (epoch + 1) * n_train
       /\ opt_steps = (epoch + 1) * n_train
       /\ sched_steps = (epoch + 1) * n_train
       /\ ~grads
  /\ pc \in TrainPhasePcs => model_mode = "train"

(* The first training batch of the second epoch, in trainable mode. *)
C9_Witness ==
  /\ pc = "opt_step"
  /\ epoch = 1
  /\ step = 0
  /\ model_mode = "train"
  /\ fwd_valid = n_valid

(* C10: between batches the numbers of schedule steps, optimizer steps    *)
(* and processed training batches are equal (the optimizer is one ahead   *)
(* only between lines 118 and 119); the count never exceeds               *)
(* num_training_steps = len(train_dataloader) * num_epochs and equals it  *)
(* at the return.                                                         *)
C10_ScheduleStepsMatch ==
  pc \in LoopPcs =>
    /\ num_training_steps = n_train * num_epochs
    /\ sched_steps <= num_training_steps
    /\ opt_steps <= num_training_steps
    /\ fwd_train <= num_training_steps
    /\ opt_steps = sched_steps + (IF pc = "lr_step" THEN 1 ELSE 0)
    /\ pc \notin TrainBatchPcs => sched_steps = fwd_train
    /\ pc \in {"return", "done"} => sched_steps = num_training_steps

(* The schedule is used up exactly at the return of a 2 x 2 run. *)
C10_Witness ==
  /\ pc = "done"
  /\ num_epochs = 2
  /\ n_train = 2
  /\ sched_steps = 4
  /\ num_training_steps = 4

====
